---- MODULE Spec2Model ----
(***************************************************************************)
(* Grammar transformations of the parser generator                         *)
(* (src/svlog/syntax/pargen/factor.rs): remove_left_recursion and          *)
(* left_factor with has_conflict, handle_conflict and disambiguate.        *)
(*                                                                         *)
(* A Nonterm is an integer: named nonterminals are positive, anonymous     *)
(* ones (allocated by the context's counter) are negative.  A Term is a    *)
(* positive integer.  A Symbol is a pair <<variant, id>>: variant 0 is     *)
(* Symbol::Term, variant 1 is Symbol::Nonterm.  A production body is a     *)
(* sequence of Symbols, and ctx.prods maps each Nonterm to the set of the  *)
(* bodies of its productions.                                              *)
(***************************************************************************)
EXTENDS Integers, Sequences, FiniteSets, TLC

VARIABLES
    prods,      \* ctx.prods: Nonterm -> set of production bodies
    next_anon,  \* the context's counter of anonymous nonterminals
    input,      \* the grammar the operation was called on (history)
    pc,         \* position of the running operation
    rec,        \* remove_left_recursion: the list `rec` still to rewrite
    auxOf,      \* remove_left_recursion: nt -> the aux allocated for it (history)
    lfIter,     \* left_factor: the nonterminals the outer loop has yet to visit
    calls,      \* left_factor: the call stack of handle_conflict/disambiguate frames
    stack,      \* the recursion guard `stack` of the current top-level handle_conflict
    warned      \* number of "Recursion in disambiguation" warnings emitted

vars == <<prods, next_anon, input, pc, rec, auxOf, lfIter, calls, stack, warned>>

----------------------------------------------------------------------------
(* Bounds of the model.                                                    *)

\* Largest number of productions an input nonterminal draws from its menu.
MaxProds == 3
\* Sequences longer than this are not expanded further by the model.
MaxSeqLen == 5
\* As MaxProds, for the inputs of the runs checked for termination.
MaxProdsFair == 2
\* Terminal strings are enumerated up to this length.
MaxStr == 3

----------------------------------------------------------------------------
(* Symbols, and the order the ordered containers iterate in.               *)

Term(t) == <<0, t>>
Nonterm(n) == <<1, n>>

IsNonterm(sym) == sym[1] = 1

\* The symbols of the input grammars.
x == Term(1)
y == Term(2)
S == 1
A == 2
B == 3

\* derive(Ord) on Symbol: by variant, then by payload.
SymLess(a, b) == a[1] < b[1] \/ (a[1] = b[1] /\ a[2] < b[2])

\* Ord on slices of Symbol: lexicographic, a proper prefix comes first.
SeqLess(s, t) ==
    LET n == IF Len(s) < Len(t) THEN Len(s) ELSE Len(t)
        diff == {i \in 1..n : s[i] # t[i]}
    IN  IF diff = {}
        THEN Len(s) < Len(t)
        ELSE LET i == CHOOSE j \in diff : \A k \in diff : j <= k
             IN  SymLess(s[i], t[i])

\* The first element of a non-empty BTreeSet of sequences.
FirstSeq(set) == CHOOSE s \in set : \A t \in set : t = s \/ SeqLess(s, t)

\* The elements of a BTreeSet of sequences in iteration order.
RECURSIVE InOrder(_)
InOrder(set) ==
    IF set = {} THEN <<>>
    ELSE LET s == FirstSeq(set) IN <<s>> \o InOrder(set \ {s})

\* The keys of a BTreeMap over Nonterm in iteration order.
RECURSIVE KeysInOrder(_)
KeysInOrder(keys) ==
    IF keys = {} THEN <<>>
    ELSE LET k == CHOOSE m \in keys : \A o \in keys : m <= o
         IN  <<k>> \o KeysInOrder(keys \ {k})

----------------------------------------------------------------------------
(* The grammar context.                                                    *)

\* Context::add_production: insert the production nt -> syms.
add_production(ps, nt, syms) ==
    [n \in DOMAIN ps \cup {nt} |->
        IF n = nt
        THEN (IF nt \in DOMAIN ps THEN ps[nt] ELSE {}) \cup {syms}
        ELSE ps[n]]

\* Context::remove_production: remove the production nt -> syms by value.
remove_production(ps, nt, syms) ==
    [n \in DOMAIN ps |-> IF n = nt THEN ps[n] \ {syms} ELSE ps[n]]

\* Context::anonymous_nonterm: the nonterminal the counter value ctr names.
anonymous_nonterm(ctr) == 0 - (ctr + 1)

\* Context::first_set_of_symbols.  `visiting` holds the nonterminals whose
\* expansion is in progress; one met again contributes the empty set.
RECURSIVE FirstOf(_, _, _)
FirstOf(ps, syms, visiting) ==
    IF syms = <<>> THEN {}
    ELSE IF ~IsNonterm(syms[1]) THEN {syms[1][2]}
    ELSE LET nt == syms[1][2]
         IN  IF nt \in visiting \/ nt \notin DOMAIN ps THEN {}
             ELSE UNION {FirstOf(ps, p, visiting \cup {nt}) : p \in ps[nt]}

first_set_of_symbols(ps, syms) == FirstOf(ps, syms, {})

----------------------------------------------------------------------------
(* remove_left_recursion.                                                  *)

\* The filter of the first loop: the production nt -> p starts with nt.
IsLeftRecAnyNonterm(nt, p) == p # <<>> /\ IsNonterm(p[1])
IsLeftRec(nt, p) == p # <<>> /\ p[1] = Nonterm(nt)

\* The list `rec` built by the first loop: every nonterminal with a
\* non-empty set of left-recursive productions, in key order.
RECURSIVE FindLeftRec(_, _)
FindLeftRec(ps, keys) ==
    IF keys = <<>> THEN <<>>
    ELSE LET nt == Head(keys)
             left_rec == {p \in ps[nt] : IsLeftRec(nt, p)}
         IN  (IF left_rec # {} THEN <<<<nt, left_rec>>>> ELSE <<>>)
                 \o FindLeftRec(ps, Tail(keys))

\* The body of the production added to aux for nt -> p: p without its
\* first symbol, followed by aux.
NewRecSyms(p, aux) == Append(Tail(p), Nonterm(aux))

\* The body that replaces a non-recursive nt -> p: p followed by aux.
NewSymsAuxFirst(p, aux) == <<Nonterm(aux)>> \o p
NewSyms(p, aux) == Append(p, Nonterm(aux))

\* The loop over left_rec: add aux -> alpha aux, remove nt -> nt alpha.
RECURSIVE MoveLeftRec(_, _, _, _)
MoveLeftRec(ps, nt, aux, todo) ==
    IF todo = <<>> THEN ps
    ELSE LET p == Head(todo)
             added == add_production(ps, aux, NewRecSyms(p, aux))
         IN  MoveLeftRec(remove_production(added, nt, p), nt, aux, Tail(todo))

\* The loop over the clone of ctx.prods[&nt]: add nt -> beta aux, remove
\* nt -> beta.
RECURSIVE UpdateNonRec(_, _, _, _)
UpdateNonRec(ps, nt, aux, todo) ==
    IF todo = <<>> THEN ps
    ELSE LET p == Head(todo)
             added == add_production(ps, nt, NewSyms(p, aux))
         IN  UpdateNonRec(remove_production(added, nt, p), nt, aux, Tail(todo))

\* One iteration of the second loop of remove_left_recursion.
RewriteNoEpsilon(ps, nt, left_rec, aux) ==
    LET moved == MoveLeftRec(ps, nt, aux, InOrder(left_rec))
    IN  UpdateNonRec(moved, nt, aux, InOrder(moved[nt]))
Rewrite(ps, nt, left_rec, aux) ==
    LET moved == MoveLeftRec(ps, nt, aux, InOrder(left_rec))
        withEps == add_production(moved, aux, <<>>)
    IN  UpdateNonRec(withEps, nt, aux, InOrder(withEps[nt]))

\* Context::anonymous_nonterm: the counter after one allocation.
NextAnon(ctr) == ctr + 1

FactorIdle ==
    /\ lfIter = <<>>
    /\ calls = <<>>
    /\ stack = {}
    /\ warned = 0

\* Lines 9-20: collect the left-recursive nonterminals.
ElimFind ==
    /\ pc = "start"
    /\ rec' = FindLeftRec(prods, KeysInOrder(DOMAIN prods))
    /\ pc' = "remove"
    /\ UNCHANGED <<prods, next_anon, input, auxOf, lfIter, calls, stack, warned>>

\* Lines 23-43: rewrite the next nonterminal of `rec`.
ElimRewrite ==
    /\ pc = "remove"
    /\ rec # <<>>
    /\ LET nt == Head(rec)[1]
           left_rec == Head(rec)[2]
           aux == anonymous_nonterm(next_anon)
       IN  /\ prods' = Rewrite(prods, nt, left_rec, aux)
           /\ auxOf' = [n \in DOMAIN auxOf \cup {nt} |->
                           IF n = nt THEN aux ELSE auxOf[n]]
    /\ next_anon' = NextAnon(next_anon)
    /\ rec' = Tail(rec)
    /\ UNCHANGED <<input, pc, lfIter, calls, stack, warned>>

\* Line 44: remove_left_recursion returns.
ElimReturn ==
    /\ pc = "remove"
    /\ rec = <<>>
    /\ pc' = "done"
    /\ UNCHANGED <<prods, next_anon, input, rec, auxOf, lfIter, calls, stack, warned>>

----------------------------------------------------------------------------
(* The input grammars of remove_left_recursion.                            *)

\* Subsets of `menu` with at most k elements.
UpTo(menu, k) == {c \in SUBSET menu : Cardinality(c) <= k}

ElimMenuS ==
    { <<>>, <<x>>, <<y>>, <<Nonterm(S)>>, <<Nonterm(S), x>>, <<Nonterm(S), y>>,
      <<Nonterm(S), Nonterm(S)>>, <<Nonterm(A), x>>, <<x, Nonterm(S)>> }

ElimMenuA ==
    { <<y>>, <<Nonterm(A), y>>, <<Nonterm(A), Nonterm(S)>>, <<Nonterm(S), y>>,
      <<Nonterm(A)>> }

ElimInputs ==
    { [n \in {S, A} |-> IF n = S THEN s ELSE a] :
        s \in UpTo(ElimMenuS, MaxProds), a \in UpTo(ElimMenuA, MaxProds - 1) }

Init ==
    /\ prods \in ElimInputs
    /\ input = prods
    /\ next_anon = 0
    /\ pc = "start"
    /\ rec = <<>>
    /\ auxOf = <<>>
    /\ FactorIdle

Next == ElimFind \/ ElimRewrite \/ ElimReturn

Spec == Init /\ [][Next]_vars

----------------------------------------------------------------------------
(* left_factor: has_conflict.                                              *)

\* The terms of a BTreeSet<Term> in iteration order.
RECURSIVE TermsInOrder(_)
TermsInOrder(set) ==
    IF set = {} THEN <<>>
    ELSE LET t == CHOOSE m \in set : \A o \in set : m <= o
         IN  <<t>> \o TermsInOrder(set \ {t})

\* The inner loop of has_conflict over the FIRST set of one production:
\* <<TRUE, _>> when an insert finds its term present, else <<FALSE, seen>>.
RECURSIVE InsertFirsts(_, _)
InsertFirsts(seen, terms) ==
    IF terms = <<>> THEN <<FALSE, seen>>
    ELSE IF Head(terms) \in seen THEN <<TRUE, seen>>
    ELSE InsertFirsts(seen \cup {Head(terms)}, Tail(terms))

\* The outer loop of has_conflict over the productions.
RECURSIVE HasConflictFrom(_, _, _)
HasConflictFrom(ps, todo, seen) ==
    IF todo = <<>> THEN FALSE
    ELSE LET r == InsertFirsts(seen, TermsInOrder(first_set_of_symbols(ps, Head(todo))))
         IN  IF r[1] THEN TRUE ELSE HasConflictFrom(ps, Tail(todo), r[2])

\* As has_conflict, but each production is compared with the next one only.
HasConflictAdjacent(ps, bodies) ==
    \E i \in 1..(Len(InOrder(bodies)) - 1) :
        first_set_of_symbols(ps, InOrder(bodies)[i])
            \cap first_set_of_symbols(ps, InOrder(bodies)[i + 1]) # {}

has_conflict(ps, bodies) == HasConflictFrom(ps, InOrder(bodies), {})

----------------------------------------------------------------------------
(* left_factor: handle_conflict.                                           *)

\* The sweep of one seed over the sequences taken out of `todo`:
\* [seen, colliders, todo] when the for loop ends.
\* As Sweep, but a colliding sequence is also put back into todo.
RECURSIVE SweepKeepHit(_, _, _, _, _)
SweepKeepHit(ps, rest, seen, colliders, todo) ==
    IF rest = <<>> THEN [seen |-> seen, colliders |-> colliders, todo |-> todo]
    ELSE LET s == Head(rest)
             firsts == first_set_of_symbols(ps, s)
             any_hit == \E f \in firsts : f \in seen
         IN  IF any_hit
             THEN SweepKeepHit(ps, Tail(rest), seen \cup firsts,
                               colliders \cup {s}, todo \cup {s})
             ELSE SweepKeepHit(ps, Tail(rest), seen, colliders, todo \cup {s})

RECURSIVE Sweep(_, _, _, _, _)
Sweep(ps, rest, seen, colliders, todo) ==
    IF rest = <<>> THEN [seen |-> seen, colliders |-> colliders, todo |-> todo]
    ELSE LET s == Head(rest)
             firsts == first_set_of_symbols(ps, s)
             any_hit == \E f \in firsts : f \in seen
         IN  IF any_hit
             THEN Sweep(ps, Tail(rest), seen \cup firsts, colliders \cup {s}, todo)
             ELSE Sweep(ps, Tail(rest), seen, colliders, todo \cup {s})

\* Line 83: the non-empty sequences of seqs.
NonEmptySeqs(seqs) == {s \in seqs : s # <<>>}

\* A frame of the call handle_conflict(ctx, seqs, stack).
HcFrame(seqs) ==
    [ fn |-> "handle_conflict", at |-> "loop", seqs |-> seqs,
      todo |-> NonEmptySeqs(seqs), seen |-> {}, groups |-> <<>>,
      leads |-> {}, done |-> {}, set |-> {}, entry |-> {} ]

\* A frame of the call disambiguate(ctx, seqs, stack), entered with the
\* guard holding `entry`.
DisFrame(seqs, entry) ==
    [ fn |-> "disambiguate", at |-> "entry", seqs |-> seqs,
      todo |-> {}, seen |-> {}, groups |-> <<>>,
      leads |-> {}, done |-> {}, set |-> {}, entry |-> entry ]

Top == calls[Len(calls)]
Pop == SubSeq(calls, 1, Len(calls) - 1)
ReplaceTop(f) == Append(Pop, f)

\* Lines 88-113: one iteration of the while loop: take the seed, sweep the
\* rest of todo, call disambiguate on the colliders.
HcSeed ==
    /\ pc = "factor"
    /\ calls # <<>>
    /\ Top.fn = "handle_conflict"
    /\ Top.todo # {}
    /\ LET init == FirstSeq(Top.todo)
           r == Sweep(prods, InOrder(Top.todo \ {init}),
                      first_set_of_symbols(prods, init), {init}, {})
       IN  calls' = Append(
               ReplaceTop([Top EXCEPT !.todo = r.todo, !.seen = r.seen,
                                      !.groups = Append(@, r.colliders)]),
               DisFrame(r.colliders, stack))
    /\ UNCHANGED <<prods, next_anon, input, pc, rec, auxOf, lfIter, stack, warned>>

\* Line 114: todo is empty, handle_conflict returns.
HcReturn ==
    /\ pc = "factor"
    /\ calls # <<>>
    /\ Top.fn = "handle_conflict"
    /\ Top.todo = {}
    /\ calls' = Pop
    /\ UNCHANGED <<prods, next_anon, input, pc, rec, auxOf, lfIter, stack, warned>>

----------------------------------------------------------------------------
(* left_factor: disambiguate.                                              *)

\* One pass of the for loop over the leads taken out of `leads`:
\* [leads, done] when the pass ends.
RECURSIVE ExpandPass(_, _, _, _)
ExpandPass(ps, rest, leads, done) ==
    IF rest = <<>> THEN [leads |-> leads, done |-> done]
    ELSE LET lead == Head(rest)
         IN  IF lead = <<>> THEN ExpandPass(ps, Tail(rest), leads, done)
             ELSE IF IsNonterm(lead[1])
             THEN ExpandPass(ps, Tail(rest),
                      leads \cup {p \o Tail(lead) : p \in ps[lead[1][2]]}, done)
             ELSE ExpandPass(ps, Tail(rest), leads, done \cup {lead})

\* Item k (from 0) of an iterator over d, as an Option: <<sym>> or <<>>.
Nth(d, k) == IF k < Len(d) THEN <<d[k + 1]>> ELSE <<>>
NthRev(d, k) == IF k < Len(d) THEN <<d[Len(d) - k]>> ELSE <<>>

\* Lines 167-182: the common prefix of the sequences of done.
RECURSIVE CommonPrefix(_, _)
CommonPrefix(done, prefix) ==
    LET set == {Nth(d, Len(prefix)) : d \in done}
    IN  IF Cardinality(set) = 1 /\ set # {<<>>}
        THEN CommonPrefix(done, Append(prefix, (CHOOSE o \in set : TRUE)[1]))
        ELSE prefix

\* Lines 183-198: the common suffix of the sequences of done, last symbol
\* first.
RECURSIVE CommonSuffix(_, _)
CommonSuffix(done, suffix) ==
    LET set == {NthRev(d, Len(suffix)) : d \in done}
    IN  IF Cardinality(set) = 1 /\ set # {<<>>}
        THEN CommonSuffix(done, Append(suffix, (CHOOSE o \in set : TRUE)[1]))
        ELSE suffix

\* Line 208: the slice d[prefix.len()..d.len() - suffix.len()] is in range.
SliceInRange(d, prefix, suffix) == Len(prefix) <= Len(d) - Len(suffix)

\* Lines 206-209: the core segments of done.
Cores(done, prefix, suffix) ==
    {SubSeq(d, Len(prefix) + 1, Len(d) - Len(suffix)) : d \in done}

\* Lines 217-219 and 221-223: the guard after the pushes, after the pops.
PushCores(guard, set) == guard \cup set
PopCoresClear(guard, set) == {}
PopCores(guard, set) == guard \ set

\* Lines 122-124: a single sequence is not ambiguous.
DisTrivial ==
    /\ pc = "factor"
    /\ calls # <<>>
    /\ Top.fn = "disambiguate"
    /\ Top.at = "entry"
    /\ Cardinality(Top.seqs) = 1
    /\ calls' = Pop
    /\ UNCHANGED <<prods, next_anon, input, pc, rec, auxOf, lfIter, stack, warned>>

\* Lines 131-132: set up the expansion.
DisBegin ==
    /\ pc = "factor"
    /\ calls # <<>>
    /\ Top.fn = "disambiguate"
    /\ Top.at = "entry"
    /\ Cardinality(Top.seqs) # 1
    /\ calls' = ReplaceTop([Top EXCEPT !.at = "expand", !.leads = Top.seqs])
    /\ UNCHANGED <<prods, next_anon, input, pc, rec, auxOf, lfIter, stack, warned>>

\* The leads and done after the next pass of the while loop.
NextPass == ExpandPass(prods, InOrder(Top.leads), {}, Top.done)

\* Lines 134-156: one pass of the while loop.  The model follows leads up
\* to MaxSeqLen symbols.
DisExpand ==
    /\ pc = "factor"
    /\ calls # <<>>
    /\ Top.fn = "disambiguate"
    /\ Top.at = "expand"
    /\ Top.leads # {}
    /\ \A l \in NextPass.leads : Len(l) <= MaxSeqLen
    /\ calls' = ReplaceTop([Top EXCEPT !.leads = NextPass.leads,
                                       !.done = NextPass.done])
    /\ UNCHANGED <<prods, next_anon, input, pc, rec, auxOf, lfIter, stack, warned>>

Expanded ==
    /\ pc = "factor"
    /\ calls # <<>>
    /\ Top.fn = "disambiguate"
    /\ Top.at = "expand"
    /\ Top.leads = {}

\* Lines 161-164: at most one expanded sequence.
DisSingle ==
    /\ Expanded
    /\ Cardinality(Top.done) <= 1
    /\ calls' = Pop
    /\ UNCHANGED <<prods, next_anon, input, pc, rec, auxOf, lfIter, stack, warned>>

\* Line 208: the slice of some d is out of range, the thread panics.
DisSlicePanic ==
    /\ Expanded
    /\ Cardinality(Top.done) > 1
    /\ \E d \in Top.done :
          ~SliceInRange(d, CommonPrefix(Top.done, <<>>), CommonSuffix(Top.done, <<>>))
    /\ pc' = "panic"
    /\ UNCHANGED <<prods, next_anon, input, rec, auxOf, lfIter, calls, stack, warned>>

\* The set of core segments computed at lines 206-209.
TopCores ==
    Cores(Top.done, CommonPrefix(Top.done, <<>>), CommonSuffix(Top.done, <<>>))

Sliced ==
    /\ Expanded
    /\ Cardinality(Top.done) > 1
    /\ \A d \in Top.done :
          SliceInRange(d, CommonPrefix(Top.done, <<>>), CommonSuffix(Top.done, <<>>))

\* Lines 210-216: a core segment is on the guard: warn and return.
DisCycle ==
    /\ Sliced
    /\ \E c \in TopCores : c \in stack
    /\ warned' = warned + 1
    /\ calls' = Pop
    /\ UNCHANGED <<prods, next_anon, input, pc, rec, auxOf, lfIter, stack>>

\* Lines 217-220: push the core segments and call handle_conflict on them.
DisRecurse ==
    /\ Sliced
    /\ \A c \in TopCores : c \notin stack
    /\ stack' = PushCores(stack, TopCores)
    /\ calls' = Append(ReplaceTop([Top EXCEPT !.at = "nested", !.set = TopCores]),
                       HcFrame(TopCores))
    /\ UNCHANGED <<prods, next_anon, input, pc, rec, auxOf, lfIter, warned>>

\* Lines 221-223: handle_conflict returned: pop the core segments, return.
DisReturn ==
    /\ pc = "factor"
    /\ calls # <<>>
    /\ Top.fn = "disambiguate"
    /\ Top.at = "nested"
    /\ stack' = PopCores(stack, Top.set)
    /\ calls' = Pop
    /\ UNCHANGED <<prods, next_anon, input, pc, rec, auxOf, lfIter, warned>>

----------------------------------------------------------------------------
(* left_factor.                                                            *)

\* Line 51: start the loop over ctx.prods.
LfStart ==
    /\ pc = "start"
    /\ lfIter' = KeysInOrder(DOMAIN prods)
    /\ pc' = "factor"
    /\ UNCHANGED <<prods, next_anon, input, rec, auxOf, calls, stack, warned>>

\* Lines 51-52: the next nonterminal has no conflict.
LfSkip ==
    /\ pc = "factor"
    /\ calls = <<>>
    /\ lfIter # <<>>
    /\ ~has_conflict(prods, prods[Head(lfIter)])
    /\ lfIter' = Tail(lfIter)
    /\ UNCHANGED <<prods, next_anon, input, pc, rec, auxOf, calls, stack, warned>>

\* Lines 52-61: the next nonterminal has a conflict: call handle_conflict
\* on its bodies with a fresh guard.
LfConflictFactoring ==
    /\ pc = "factor"
    /\ calls = <<>>
    /\ lfIter # <<>>
    /\ has_conflict(prods, prods[Head(lfIter)])
    /\ lfIter' = Tail(lfIter)
    /\ LET nt == Head(lfIter)
           aux == anonymous_nonterm(next_anon)
           done == {d \in prods[nt] : d # <<>> /\ ~IsNonterm(d[1])}
           prefix == CommonPrefix(done, <<>>)
       IN  prods' =
               IF Cardinality(done) > 1 /\ prefix # <<>>
               THEN [n \in DOMAIN prods \cup {aux} |->
                       IF n = nt THEN (prods[nt] \ done) \cup {Append(prefix, Nonterm(aux))}
                       ELSE IF n = aux THEN Cores(done, prefix, <<>>)
                       ELSE prods[n]]
               ELSE prods
    /\ calls' = <<HcFrame(prods[Head(lfIter)])>>
    /\ stack' = {}
    /\ UNCHANGED <<next_anon, input, pc, rec, auxOf, warned>>
LfConflict ==
    /\ pc = "factor"
    /\ calls = <<>>
    /\ lfIter # <<>>
    /\ has_conflict(prods, prods[Head(lfIter)])
    /\ lfIter' = Tail(lfIter)
    /\ calls' = <<HcFrame(prods[Head(lfIter)])>>
    /\ stack' = {}
    /\ UNCHANGED <<prods, next_anon, input, pc, rec, auxOf, warned>>

\* Line 64: left_factor returns.
LfReturn ==
    /\ pc = "factor"
    /\ calls = <<>>
    /\ lfIter = <<>>
    /\ pc' = "done"
    /\ UNCHANGED <<prods, next_anon, input, rec, auxOf, lfIter, calls, stack, warned>>

----------------------------------------------------------------------------
(* The input grammars of left_factor.                                      *)

FactorMenuS ==
    { <<>>, <<x>>, <<y>>, <<x, x>>, <<x, y>>, <<x, y, x>>,
      <<Nonterm(S)>>, <<x, Nonterm(S)>>,
      <<Nonterm(A)>>, <<Nonterm(B)>>, <<x, Nonterm(A)>>, <<x, Nonterm(B)>> }

FactorMenuHelper ==
    { {<<x>>}, {<<y>>}, {<<x>>, <<y>>}, {<<Nonterm(S)>>} }

FactorInputs ==
    { [n \in {S, A, B} |-> IF n = S THEN s ELSE IF n = A THEN a ELSE b] :
        s \in UpTo(FactorMenuS, MaxProds) \ {{}},
        a \in FactorMenuHelper, b \in FactorMenuHelper }

\* left_factor is about to be called on one of `inputs`.
FactorCalledOn(inputs) ==
    /\ prods \in inputs
    /\ input = prods
    /\ next_anon = 0
    /\ pc = "start"
    /\ rec = <<>>
    /\ auxOf = <<>>
    /\ FactorIdle

InitFactor == FactorCalledOn(FactorInputs)

NextFactor ==
    \/ LfStart \/ LfSkip \/ LfConflict \/ LfReturn
    \/ HcSeed \/ HcReturn
    \/ DisTrivial \/ DisBegin \/ DisExpand \/ DisSingle
    \/ DisSlicePanic \/ DisCycle \/ DisRecurse \/ DisReturn

SpecFactor == InitFactor /\ [][NextFactor]_vars

\* The program runs on one thread and takes its next step whenever it has
\* one.
\* Input grammars without immediate left recursion, as remove_left_recursion
\* is meant to leave them; A may still lead back to S.
FairInputs ==
    { [n \in {S, A, B} |-> IF n = S THEN s ELSE IF n = A THEN a ELSE {<<x>>}] :
        s \in UpTo({p \in FactorMenuS : ~IsLeftRec(S, p)}, MaxProdsFair) \ {{}},
        a \in {{<<x>>}, {<<Nonterm(S)>>}} }

InitFair == FactorCalledOn(FairInputs)

SpecFactorFair == InitFair /\ [][NextFactor]_vars /\ WF_vars(NextFactor)

----------------------------------------------------------------------------
(* Properties of remove_left_recursion.                                    *)

\* The production nt -> p begins with its own owner.
StartsWithOwner(nt, p) == Len(p) > 0 /\ p[1] = <<1, nt>>

\* The nonterminals occurring in a grammar, as keys or inside bodies.
Mentioned(ps) ==
    DOMAIN ps \cup
    {p[i][2] : <<p, i>> \in
        {<<q, j>> \in (UNION {ps[n] : n \in DOMAIN ps}) \X (1..MaxSeqLen) :
            j <= Len(q) /\ q[j][1] = 1}}

\* The terminal strings of length at most MaxStr derivable from the body
\* `body` when each nonterminal n derives the strings L[n].
RECURSIVE BodyLang(_, _)
BodyLang(body, L) ==
    IF body = <<>> THEN {<<>>}
    ELSE LET hd == IF body[1][1] = 1
                   THEN (IF body[1][2] \in DOMAIN L THEN L[body[1][2]] ELSE {})
                   ELSE {<<body[1][2]>>}
             tl == BodyLang(Tail(body), L)
         IN  {w \in {u \o v : u \in hd, v \in tl} : Len(w) <= MaxStr}

\* The least fixpoint: the strings of length at most MaxStr derivable from
\* each nonterminal of the grammar ps.
RECURSIVE LangFix(_, _)
LangFix(ps, L) ==
    LET L2 == [n \in DOMAIN ps |-> UNION {BodyLang(p, L) : p \in ps[n]}]
    IN  IF L2 = L THEN L ELSE LangFix(ps, L2)

Lang(ps) == LangFix(ps, [n \in DOMAIN ps |-> {}])

\* C1: after remove_left_recursion no production of any nonterminal,
\* original or auxiliary, has its own owner as its first symbol.
C1_NoImmediateLeftRecursion ==
    pc = "done" =>
        \A nt \in DOMAIN prods : \A p \in prods[nt] : ~StartsWithOwner(nt, p)

\* C2: every nonterminal rewritten by remove_left_recursion derives the
\* same terminal strings (up to length MaxStr) before and after the call.
C2_LanguagePreserved ==
    pc = "done" =>
        LET before == Lang(input)
            after == Lang(prods)
        IN  \A nt \in DOMAIN auxOf : after[nt] = before[nt]

\* A rewritten nonterminal derives a string that needs the recursion.
C2_Witness ==
    /\ pc = "done"
    /\ \E nt \in DOMAIN auxOf :
          /\ \E p \in input[nt] : StartsWithOwner(nt, p) /\ Len(p) > 1
          /\ \E w \in Lang(prods)[nt] : Len(w) = MaxStr

\* C3: each nonterminal nt with a production nt -> nt alpha gets one
\* auxiliary aux that is absent from the input grammar and differs from
\* every other aux; afterwards aux has exactly the productions alpha aux
\* and the empty one, and nt exactly the productions beta aux.
C3_RewriteShape ==
    pc = "done" =>
        \A nt \in DOMAIN input :
            LET left == {p \in input[nt] : StartsWithOwner(nt, p)}
            IN  left # {} =>
                  /\ nt \in DOMAIN auxOf
                  /\ auxOf[nt] \notin Mentioned(input)
                  /\ \A o \in DOMAIN auxOf : o # nt => auxOf[o] # auxOf[nt]
                  /\ auxOf[nt] \in DOMAIN prods
                  /\ prods[auxOf[nt]] =
                        {SubSeq(p, 2, Len(p)) \o <<<<1, auxOf[nt]>>>> : p \in left}
                            \cup {<<>>}
                  /\ prods[nt] =
                        {p \o <<<<1, auxOf[nt]>>>> : p \in input[nt] \ left}

\* Two nonterminals were rewritten, one of them with several recursive and
\* several non-recursive productions.
C3_Witness ==
    /\ pc = "done"
    /\ Cardinality(DOMAIN auxOf) = 2
    /\ Cardinality({p \in input[S] : StartsWithOwner(S, p)}) = 2
    /\ Cardinality(prods[S]) = 1

\* C9: the productions of a nonterminal that has no production beginning
\* with itself are never changed and no auxiliary is allocated for it.
C9_OthersUntouched ==
    \A nt \in DOMAIN input :
        (\A p \in input[nt] : ~StartsWithOwner(nt, p)) =>
            /\ prods[nt] = input[nt]
            /\ nt \notin DOMAIN auxOf

\* A is rewritten in the same pass while S, left-recursive only through A,
\* is left as it was.
C9_Witness ==
    /\ pc = "done"
    /\ A \in DOMAIN auxOf
    /\ S \notin DOMAIN auxOf
    /\ <<<<1, A>>, <<0, 1>>>> \in prods[S]
    /\ <<<<1, S>>, <<0, 2>>>> \in input[A]

----------------------------------------------------------------------------
(* Properties of left_factor.                                              *)

\* FIRST of a sequence in the grammar left_factor runs on.
FirstIn(s) == first_set_of_symbols(prods, s)

\* Two distinct bodies of `bodies` share a terminal in their FIRST sets.
SharesFirst(bodies) ==
    \E p \in bodies : \E q \in bodies : p # q /\ FirstIn(p) \cap FirstIn(q) # {}

\* The expansion in progress has a lead longer than the model follows.
BeyondModel ==
    /\ pc = "factor"
    /\ calls # <<>>
    /\ Top.fn = "disambiguate"
    /\ Top.at = "expand"
    /\ \E l \in NextPass.leads : Len(l) > MaxSeqLen

\* C4: left_factor terminates on every finite grammar: every call of
\* handle_conflict and disambiguate eventually returns.  (Runs that end in
\* the panic of line 208, and runs whose leads outgrow the model, are left
\* out: what remains are the runs the model follows to their end.)
C4_LeftFactorTerminates == <>(pc = "done" \/ pc = "panic" \/ BeyondModel)

\* C5: the common prefix and the common suffix never overlap on any
\* sequence of done, so every slice is in range and disambiguate never
\* fails.
C5_PrefixSuffixNeverOverlap ==
    /\ pc # "panic"
    /\ (Expanded /\ Cardinality(Top.done) > 1) =>
          \A d \in Top.done :
              Len(CommonPrefix(Top.done, <<>>)) + Len(CommonSuffix(Top.done, <<>>))
                  <= Len(d)

\* C6: when the sweep of a seed has finished (disambiguate is being
\* entered for its group), every sequence left in todo has a FIRST set
\* disjoint from the union accumulated for the group.
C6_EscapedAreDisjoint ==
    (/\ Len(calls) >= 2
     /\ Top.fn = "disambiguate"
     /\ Top.at = "entry"
     /\ calls[Len(calls) - 1].fn = "handle_conflict") =>
        \A s \in calls[Len(calls) - 1].todo :
            FirstIn(s) \cap calls[Len(calls) - 1].seen = {}

\* C7: has_conflict is true exactly when two distinct productions share a
\* terminal in their FIRST sets, and handle_conflict is only ever called
\* at top level for bodies of which two do.
C7_HasConflictIffShared ==
    /\ \A nt \in DOMAIN prods :
          has_conflict(prods, prods[nt]) <=> SharesFirst(prods[nt])
    /\ calls # <<>> => SharesFirst(calls[1].seqs)

\* left_factor is about to test a nonterminal with three alternatives of
\* pairwise disjoint FIRST sets, one of them empty and one computed through a
\* nonterminal, and skips it.
C7_Witness ==
    /\ pc = "factor"
    /\ calls = <<>>
    /\ lfIter # <<>>
    /\ Head(lfIter) = S
    /\ Cardinality(prods[S]) = 3
    /\ \E p \in prods[S] : FirstIn(p) = {}
    /\ \E p \in prods[S] : Len(p) > 0 /\ p[1][1] = 1 /\ FirstIn(p) # {}
    /\ ~SharesFirst(prods[S])
    /\ ~has_conflict(prods, prods[S])

\* C8: left_factor never changes the grammar: no production is added or
\* removed and no auxiliary nonterminal is allocated.
C8_DetectOnly == prods = input /\ next_anon = 0

\* left_factor returned after conflicts and a cycle abort.
C8_Witness == pc = "done" /\ warned > 0 /\ SharesFirst(prods[S])

\* The disambiguate frames of the call stack that are in their nested
\* handle_conflict.
NestedFrames ==
    {i \in 1..Len(calls) : calls[i].fn = "disambiguate" /\ calls[i].at = "nested"}

\* C10: the recursion guard is balanced: a returning disambiguate leaves
\* the guard as it found it; the core segments it pushes were absent
\* before the push and stay on the guard during the nested
\* handle_conflict; the guard is empty when the top-level handle_conflict
\* has returned.
C10_GuardBalanced ==
    [][ /\ (/\ calls # <<>>
            /\ Top.fn = "disambiguate"
            /\ Len(calls') < Len(calls)) => stack' = Top.entry
        /\ (/\ calls # <<>>
            /\ Top.fn = "disambiguate"
            /\ Len(calls') > Len(calls)) =>
               /\ calls'[Len(calls)].set \cap stack = {}
               /\ calls'[Len(calls)].set \subseteq stack'
        /\ \A i \in NestedFrames : calls[i].set \subseteq stack
        /\ (\A i \in NestedFrames : calls[i].set \subseteq stack)'
        /\ calls' = <<>> => stack' = {}
      ]_vars

\* A disambiguate two levels down has pushed its non-empty core segments
\* on a guard that already held those of its caller.
C10_Witness ==
    /\ Cardinality(NestedFrames) >= 2
    /\ \E i \in NestedFrames : calls[i].entry # {} /\ calls[i].set # {}
    /\ Top.fn = "disambiguate"
    /\ Top.at = "entry"

\* The handle_conflict frames of the call stack.
HcFrames == {i \in 1..Len(calls) : calls[i].fn = "handle_conflict"}

\* The sequences the call of frame f has passed to disambiguate so far.
Grouped(f) == UNION {f.groups[k] : k \in 1..Len(f.groups)}

\* The groups frame f has formed are non-empty, pairwise disjoint and free
\* of the empty sequence, and with todo they make up the non-empty
\* sequences of its input.
PartitionSoFar(f) ==
    /\ \A k \in 1..Len(f.groups) : f.groups[k] # {}
    /\ \A k \in 1..Len(f.groups) : \A l \in 1..Len(f.groups) :
          k # l => f.groups[k] \cap f.groups[l] = {}
    /\ \A g \in Grouped(f) : Len(g) > 0
    /\ Grouped(f) \cap f.todo = {}
    /\ Grouped(f) \cup f.todo = {q \in f.seqs : Len(q) > 0}

\* C11: handle_conflict partitions its input: each group it passes to
\* disambiguate is non-empty and contains its seed, no sequence is in two
\* groups, the empty sequence is in none, and when handle_conflict returns
\* every non-empty sequence of seqs has been passed in exactly one group.
C11_GroupsPartitionInput ==
    [][ /\ \A i \in HcFrames : PartitionSoFar(calls[i])
        /\ (\A i \in HcFrames : PartitionSoFar(calls[i]))'
        /\ (/\ calls # <<>>
            /\ Top.fn = "handle_conflict"
            /\ Len(calls') > Len(calls)) =>
               /\ calls'[Len(calls')].fn = "disambiguate"
               /\ calls'[Len(calls')].seqs =
                     calls'[Len(calls)].groups[Len(calls'[Len(calls)].groups)]
               /\ Len(calls'[Len(calls)].groups) = Len(Top.groups) + 1
               /\ \E seed \in Top.todo :
                     /\ \A o \in Top.todo : o = seed \/ SeqLess(seed, o)
                     /\ seed \in calls'[Len(calls')].seqs
        /\ (/\ calls # <<>>
            /\ Top.fn = "handle_conflict"
            /\ Len(calls') < Len(calls)) =>
               Grouped(Top) = {q \in Top.seqs : Len(q) > 0}
      ]_vars

\* A nested handle_conflict whose input held the empty sequence is about
\* to return after forming two groups, below a handle_conflict that formed
\* a group of three sequences.
C11_Witness ==
    /\ Len(calls) >= 3
    /\ Top.fn = "handle_conflict"
    /\ Top.todo = {}
    /\ <<>> \in Top.seqs
    /\ Len(Top.groups) >= 2
    /\ \E k \in 1..Len(calls[1].groups) : Cardinality(calls[1].groups[k]) >= 3

\* Every production body of the grammar consists of terminals only.
TerminalsOnly(ps) ==
    \A n \in DOMAIN ps : \A p \in ps[n] : \A i \in 1..Len(p) : p[i][1] = 0

\* C12: on a grammar whose production bodies consist of terminals only,
\* left_factor never takes the "Recursion in disambiguation" branch.
C12_NoAbortWithoutRecursion == TerminalsOnly(input) => warned = 0

====
